---- MODULE Spec2Model ----
(***************************************************************************)
(* The browser client of UnblockedGPT (class ChatApp, the multi-chat       *)
(* version) as a state machine: the session store, the staged images, the  *)
(* single in-flight chat request, the conversation view and localStorage.  *)
(*                                                                         *)
(* JavaScript values are modelled as follows.                              *)
(*   - strings are TLA+ strings (Len, SubSeq and \o act on them as         *)
(*     length, substring and concatenation do);                            *)
(*   - timestamps (Date.now(), toISOString()) are the integer clock `now`; *)
(*   - objects that are shared by reference (the chat objects held by the  *)
(*     Map and captured by a suspended sendMessage) live in `heap`;        *)
(*   - a property that is undefined is a field the record does not have.   *)
(*                                                                         *)
(* The relay (the Express application) is a state machine of its own, over *)
(* the variables server, apiKey and exchange; the specifications of the    *)
(* page leave it idle and those of the relay have no page open.            *)
(***************************************************************************)
EXTENDS Integers, Sequences, FiniteSets, Bags, TLC

VARIABLES
    now,             \* the wall clock, in milliseconds
    chats,           \* this.chats: the Map, as its entries in insertion order
    heap,            \* the chat objects the Map and the pending send refer to
    currentChatId,   \* this.currentChatId
    selectedImages,  \* this.selectedImages
    reading,         \* FileReaders started and not yet loaded (a bag of files)
    inputEnabled,    \* !userInput.disabled, !sendButton.disabled
    loading,         \* the loading indicator is shown
    view,            \* the children of #chat-history
    storage,         \* localStorage: the two entries of the application
    pending,         \* the suspended sendMessage and its request in flight
    sends,           \* number of requests issued so far (bounds the model)
    server,          \* the relay that runs: unnamed/part_000 or server.js
    apiKey,          \* process.env.OPENAI_API_KEY of the relay
    exchange         \* the POST /api/chat the relay handles: the request, the
                     \* calls of the provider and the answers sent so far

\* the state of the page
pageVars == <<now, chats, heap, currentChatId, selectedImages, reading,
              inputEnabled, loading, view, storage, pending, sends>>

\* the state of the relay
relayVars == <<server, apiKey, exchange>>

vars == <<now, chats, heap, currentChatId, selectedImages, reading,
          inputEnabled, loading, view, storage, pending, sends,
          server, apiKey, exchange>>

-----------------------------------------------------------------------------
(* Bounds of the model. *)

MaxTime == 3
MaxChats == 2
MaxSends == 1
MaxStaged == 2
MaxInputLen == 34

-----------------------------------------------------------------------------
(* Strings. *)

Last(s) == s[Len(s)]

Range(s) == {s[i] : i \in 1..Len(s)}

IsSpace(c) == c \in {" ", "\t", "\n"}

RECURSIVE TrimStart(_)
TrimStart(s) ==
    IF Len(s) > 0 /\ IsSpace(SubSeq(s, 1, 1))
    THEN TrimStart(SubSeq(s, 2, Len(s))) ELSE s

RECURSIVE TrimEnd(_)
TrimEnd(s) ==
    IF Len(s) > 0 /\ IsSpace(SubSeq(s, Len(s), Len(s)))
    THEN TrimEnd(SubSeq(s, 1, Len(s) - 1)) ELSE s

\* the string as it is
NoTrim(s) == s

\* String.prototype.trim
Trim(s) == TrimEnd(TrimStart(s))

\* String.prototype.substring(0, n)
Substring0(s, n) == SubSeq(s, 1, IF n < Len(s) THEN n ELSE Len(s))

\* String.prototype.startsWith
StartsWith(s, p) == Len(s) >= Len(p) /\ SubSeq(s, 1, Len(p)) = p

-----------------------------------------------------------------------------
(* JavaScript values. *)

\* null and undefined, where the other values of the variable are strings
JsNull == "<null>"

JsUndefined == "<undefined>"

\* String(v), as localStorage.setItem applies it to a value that is no string
ToStr(v) == IF v = JsNull THEN "null" ELSE v

\* {}: an object with no own enumerable property
EmptyObject == <<>>

\* a falsy string operand of !, && and if: undefined (no such field) or ''
HasText(m) == "text" \in DOMAIN m /\ m.text # ""

-----------------------------------------------------------------------------
(* The Map this.chats: entries [key, ref] in insertion order. *)

\* Array.from(this.chats.keys())
MapKeys(m) == [i \in 1..Len(m) |-> m[i].key]

\* a[a.length - 1]: undefined for an empty array
LastOf(a) == IF Len(a) = 0 THEN JsUndefined ELSE a[Len(a)]

MapHas(m, k) == \E i \in 1..Len(m) : m[i].key = k

MapGet(m, k) == m[CHOOSE i \in 1..Len(m) : m[i].key = k].ref

\* Map.prototype.set: a key already present keeps its place
MapSet(m, k, r) ==
    IF MapHas(m, k)
    THEN [i \in 1..Len(m) |-> IF m[i].key = k THEN [key |-> k, ref |-> r] ELSE m[i]]
    ELSE Append(m, [key |-> k, ref |-> r])

MapDelete(m, k) == SelectSeq(m, LAMBDA e : e.key # k)

MapRefs(m) == {m[i].ref : i \in 1..Len(m)}

\* the address of a new object: the least one not in use
NewRef(h) == CHOOSE r \in 1..(Cardinality(DOMAIN h) + 1) :
                 r \notin DOMAIN h /\ \A q \in 1..(r - 1) : q \in DOMAIN h

\* the heap without the objects nothing refers to any more
Collect(h, live) == [r \in (DOMAIN h) \cap live |-> h[r]]

-----------------------------------------------------------------------------
(* Files the user can pick, and what a FileReader makes of them. *)

CatFile == [name |-> "cat.png", type |-> "image/png", bytes |-> "Y2F0"]

DogFile == [name |-> "dog.jpg", type |-> "image/jpeg", bytes |-> "ZG9n"]

NotesFile == [name |-> "notes.txt", type |-> "text/plain", bytes |-> "bm90ZXM="]

\* the selections of the file dialog (e.target.files)
Selections == {<<DogFile, NotesFile, CatFile>>}

\* FileReader.readAsDataURL
ReadAsDataURL(file) == "data:" \o file.type \o ";base64," \o file.bytes

-----------------------------------------------------------------------------
(* JSON.stringify followed by the storage or the wire, as the JSON value   *)
(* the text denotes: a File has no enumerable property and becomes {}, a   *)
(* property that is undefined is left out (it is no field here already).   *)

\* the image without its preview data
JSONImageNoPreview(img) == [file |-> EmptyObject, dataUrl |-> "", name |-> img.name]

JSONImage(img) == [file |-> EmptyObject, dataUrl |-> img.dataUrl, name |-> img.name]

JSONImages(imgs) == [i \in 1..Len(imgs) |-> JSONImage(imgs[i])]

JSONMessage(m) == [m EXCEPT !.images = JSONImages(m.images)]

JSONMessages(ms) == [i \in 1..Len(ms) |-> JSONMessage(ms[i])]

JSONChat(c) == [c EXCEPT !.messages = JSONMessages(c.messages)]

\* JSON.stringify(Array.from(this.chats.entries()))
JSONEntries(m, h) ==
    [i \in 1..Len(m) |-> [key |-> m[i].key, value |-> JSONChat(h[m[i].ref])]]

-----------------------------------------------------------------------------
(* The conversation view: the children of #chat-history, in order. *)

\* addMessage(text, sender, images), with the arguments taken from message m
AddMessage(v, m) ==
    Append(v, [kind   |-> "message",
               sender |-> m.sender,
               images |-> [i \in 1..Len(m.images) |->
                              [src |-> m.images[i].dataUrl, alt |-> m.images[i].name]],
               divs   |-> IF HasText(m) THEN <<m.text>> ELSE <<>>])

\* addErrorMessage(text)
AddErrorMessage(v, text) ==
    Append(v, [kind |-> "error", sender |-> "", images |-> <<>>, divs |-> <<text>>])

RECURSIVE RenderFrom(_, _)
RenderFrom(v, ms) ==
    IF ms = <<>> THEN v ELSE RenderFrom(AddMessage(v, Head(ms)), Tail(ms))

\* renderChatHistory(messages): clearChatHistory, then addMessage for each one
RenderChatHistory(ms) == RenderFrom(<<>>, ms)

-----------------------------------------------------------------------------
(* localStorage. An entry is absent or holds a string; the string of the   *)
(* chats entry is modelled by the JSON value it denotes, or is no JSON.    *)

NoItem == [kind |-> "absent"]

NotJson == [kind |-> "garbage"]

JsonItem(v) == [kind |-> "json", value |-> v]

StringItem(v) == [kind |-> "string", value |-> v]

\* localStorage.getItem: null for a key that is absent
GetItem(item) == IF item.kind = "absent" THEN JsNull ELSE item.value

\* the outcomes of a pair of localStorage.setItem calls
Writes == {"stored"}

\* the outcomes when setItem can throw (the quota is exceeded): both items
\* are stored, the first setItem throws, or the second does
WriteOutcomes == {"stored", "first throws", "second throws"}

-----------------------------------------------------------------------------
(* The session store. Its operations are functions of the part S of the    *)
(* state they read and write: [chats, heap, cur, view, storage].           *)

NewChatTitle == "New Chat"

\* a save whose failure removes both items
SaveChatsToStorageLossy(S, w) ==
    IF w = "stored"
    THEN [S EXCEPT !.storage = [chats   |-> JsonItem(JSONEntries(S.chats, S.heap)),
                                current |-> StringItem(ToStr(S.cur))]]
    ELSE [S EXCEPT !.storage = [chats |-> NoItem, current |-> NoItem]]

\* saveChatsToStorage; w is what the storage does with the first setItem
SaveChatsToStorage(S, w) ==
    IF w = "stored"
    THEN [S EXCEPT !.storage = [chats   |-> JsonItem(JSONEntries(S.chats, S.heap)),
                                current |-> StringItem(ToStr(S.cur))]]
    ELSE IF w = "second throws"
    THEN [S EXCEPT !.storage.chats = JsonItem(JSONEntries(S.chats, S.heap))]
    ELSE S

\* switchToChat(chatId)
SwitchToChat(S, chatId) ==
    IF ~MapHas(S.chats, chatId) THEN S
    ELSE [S EXCEPT !.cur = chatId,
                   !.view = RenderChatHistory(S.heap[MapGet(S.chats, chatId)].messages)]

\* createNewChat at time t
CreateNewChat(S, t, w) ==
    LET chatId == "chat_" \o ToString(t)
        chat == [id |-> chatId, title |-> NewChatTitle, messages |-> <<>>,
                 createdAt |-> t, updatedAt |-> t]
        r == NewRef(S.heap)
        S1 == [S EXCEPT !.heap = [q \in DOMAIN S.heap \cup {r} |->
                                      IF q = r THEN chat ELSE S.heap[q]],
                        !.chats = MapSet(S.chats, chatId, r),
                        !.cur = chatId]
        S2 == SaveChatsToStorage(S1, w)
    IN  [S2 EXCEPT !.view = <<>>]

\* deleteChat without the guard of the last chat
DeleteChatUnguarded(S, chatId, w) ==
    LET S1 == [S EXCEPT !.chats = MapDelete(S.chats, chatId)]
        remainingChats == MapKeys(S1.chats)
        S2 == IF S.cur = chatId
              THEN SwitchToChat(S1, LastOf(remainingChats))
              ELSE S1
    IN  SaveChatsToStorage(S2, w)

\* deleteChat that leaves the current chat as it is
DeleteChatNoSwitch(S, chatId, w) ==
    IF Len(S.chats) <= 1 THEN S
    ELSE SaveChatsToStorage([S EXCEPT !.chats = MapDelete(S.chats, chatId)], w)

\* deleteChat that saves before it switches away from the deleted chat
DeleteChatSaveFirst(S, chatId, w) ==
    IF Len(S.chats) <= 1 THEN S
    ELSE LET S1 == [S EXCEPT !.chats = MapDelete(S.chats, chatId)]
             remainingChats == MapKeys(S1.chats)
             S2 == SaveChatsToStorage(S1, w)
         IN  IF S.cur = chatId
             THEN SwitchToChat(S2, LastOf(remainingChats))
             ELSE S2

\* deleteChat(chatId, event)
DeleteChat(S, chatId, w) ==
    IF Len(S.chats) <= 1 THEN S
    ELSE LET S1 == [S EXCEPT !.chats = MapDelete(S.chats, chatId)]
             remainingChats == MapKeys(S1.chats)
             S2 == IF S.cur = chatId
                   THEN SwitchToChat(S1, LastOf(remainingChats))
                   ELSE S1
         IN  SaveChatsToStorage(S2, w)

\* updateChatTitle(chatId, newTitle) at time t
UpdateChatTitle(S, chatId, newTitle, t, w) ==
    IF ~MapHas(S.chats, chatId) THEN S
    ELSE LET r == MapGet(S.chats, chatId)
             S1 == [S EXCEPT !.heap[r].title = newTitle, !.heap[r].updatedAt = t]
         IN  SaveChatsToStorage(S1, w)

\* getCurrentChat(): the object, or undefined (no reference)
HasCurrentChat(S) == MapHas(S.chats, S.cur)

GetCurrentChat(S) == MapGet(S.chats, S.cur)

\* loadChatsFromStorage
LoadChatsFromStorage(S) ==
    LET chatsData == S.storage.chats
    IN  CASE chatsData.kind = "absent"  -> S
          [] chatsData.kind = "garbage" -> [S EXCEPT !.chats = <<>>, !.heap = <<>>]
          [] chatsData.kind = "json"    ->
                LET parsedData == chatsData.value
                IN  [S EXCEPT !.heap  = [i \in 1..Len(parsedData) |-> parsedData[i].value],
                              !.chats = [i \in 1..Len(parsedData) |->
                                            [key |-> parsedData[i].key, ref |-> i]],
                              !.cur   = GetItem(S.storage.current)]

\* initializeApp that goes back to the stored current chat when it exists
InitializeAppRestore(S, t, w) ==
    LET L == LoadChatsFromStorage(S)
        chatIds == MapKeys(L.chats)
    IN  IF Len(L.chats) = 0
        THEN CreateNewChat(L, t, w)
        ELSE IF MapHas(L.chats, L.cur)
        THEN SwitchToChat(L, L.cur)
        ELSE SwitchToChat(L, LastOf(chatIds))

\* initializeApp at time t
InitializeApp(S, t, w) ==
    LET L == LoadChatsFromStorage(S)
        chatIds == MapKeys(L.chats)
    IN  IF Len(L.chats) = 0
        THEN CreateNewChat(L, t, w)
        ELSE SwitchToChat(L, LastOf(chatIds))

\* the constructor's fields, over the storage the page finds
Constructed(st) ==
    [chats |-> <<>>, heap |-> <<>>, cur |-> JsNull, view |-> <<>>, storage |-> st]

-----------------------------------------------------------------------------
(* The request of sendMessage and the answers it can meet. *)

TitleMax == 30

\* the title with the comparison off by one
AutoTitleFrom30(message) ==
    IF Len(message) >= TitleMax THEN Substring0(message, TitleMax) \o "..." ELSE message

\* the title sendMessage derives from the first message
AutoTitle(message) ==
    IF Len(message) > TitleMax THEN Substring0(message, TitleMax) \o "..." ELSE message

\* the request with the conversation left out when there is none
ComposeRequestOmitEmpty(message, messagImages, conversationHistory) ==
    IF Len(messagImages) > 0
    THEN [headers |-> {},
          form    |-> <<[name |-> "message", value |-> message],
                        [name |-> "conversation",
                         value |-> JSONMessages(conversationHistory)]>>
                      \o [i \in 1..Len(messagImages) |->
                             [name |-> "images", value |-> messagImages[i].file]]]
    ELSE [headers |-> {<<"Content-Type", "application/json">>},
          json    |-> IF Len(conversationHistory) = 0
                      THEN [message |-> message]
                      ELSE [message |-> message,
                            conversation |-> JSONMessages(conversationHistory)]]

\* the body and headers sendMessage hands to fetch; a FormData is the list
\* of its entries in the order of the append calls
ComposeRequest(message, messagImages, conversationHistory) ==
    IF Len(messagImages) > 0
    THEN [headers |-> {},
          form    |-> <<[name |-> "message", value |-> message],
                        [name |-> "conversation",
                         value |-> JSONMessages(conversationHistory)]>>
                      \o [i \in 1..Len(messagImages) |->
                             [name |-> "images", value |-> messagImages[i].file]]]
    ELSE [headers |-> {<<"Content-Type", "application/json">>},
          json    |-> [message |-> message,
                       conversation |-> JSONMessages(conversationHistory)]]

NoRequest == [active |-> FALSE]

PendingRefs(p) == IF p.active THEN {p.chat} ELSE {}

RateLimitText == "Rate limit exceeded. Please try again later."

\* what fetch settles with: a rejection, or a response with status and body
Replies ==
    { [kind |-> "rejected", message |-> "Failed to fetch"],
      [kind |-> "response", status |-> 429, body |-> [error |-> RateLimitText]],
      [kind |-> "response", status |-> 200, body |-> [error |-> "Internal server error"]],
      [kind |-> "response", status |-> 200, body |-> [response |-> "Hi there"]],
      [kind |-> "response", status |-> 200, body |-> EmptyObject] }

\* Response.ok
ResponseOk(reply) == reply.status >= 200 /\ reply.status <= 299

\* the try block without its check of data.error
ThrowsIgnoringBody(reply) == reply.kind = "rejected" \/ ~ResponseOk(reply)

\* the Error the try block of sendMessage ends with, if any
Throws(reply) ==
    \/ reply.kind = "rejected"
    \/ ~ResponseOk(reply)
    \/ ("error" \in DOMAIN reply.body /\ reply.body.error # "")

\* error.message of that Error
ErrorMessage(reply) ==
    IF reply.kind = "rejected" THEN reply.message
    ELSE IF ~ResponseOk(reply) THEN "HTTP error! status: " \o ToString(reply.status)
    ELSE reply.body.error

\* what the user can have typed into #user-input
Inputs == {"  ", " Hello "}

-----------------------------------------------------------------------------
(* The state machine. *)

\* no request has reached the relay
NoExchange == [stage |-> "none"]

\* the relay the page talks to: started with its key, and left out of the
\* page's specifications, where Replies stands for its answers
RelayIdle ==
    /\ server = "unnamed/part_000"
    /\ apiKey = "sk-test"
    /\ exchange = NoExchange

\* the part of the state the session store's operations act on
Store == [chats |-> chats, heap |-> heap, cur |-> currentChatId,
          view |-> view, storage |-> storage]

\* the store S and the pending send p become the next state
SetStore(S, p) ==
    /\ chats' = S.chats
    /\ heap' = Collect(S.heap, MapRefs(S.chats) \cup PendingRefs(p))
    /\ currentChatId' = S.cur
    /\ view' = S.view
    /\ storage' = S.storage
    /\ pending' = p

\* What an earlier visit can have left in localStorage. In the first its
\* only chat began with a message that was an image and no text, which was
\* answered; in the second the first send of its only chat failed.
CatImage == [file |-> CatFile, dataUrl |-> ReadAsDataURL(CatFile), name |-> CatFile.name]

StoredAnswered ==
    <<[key |-> "chat_0",
       value |-> [id |-> "chat_0", title |-> "New Chat",
                  messages |-> <<[text |-> "", sender |-> "user",
                                  images |-> <<JSONImage(CatImage)>>, timestamp |-> 0],
                                 [text |-> "Hi there", sender |-> "assistant",
                                  images |-> <<>>, timestamp |-> 1]>>,
                  createdAt |-> 0, updatedAt |-> 1]]>>

StoredFailed ==
    <<[key |-> "chat_0",
       value |-> [id |-> "chat_0", title |-> "Hello",
                  messages |-> <<[text |-> "Hello", sender |-> "user",
                                  images |-> <<>>, timestamp |-> 0]>>,
                  createdAt |-> 0, updatedAt |-> 0]]>>

\* localStorage when the page is opened: nothing, a string that is no JSON,
\* or the chats of an earlier visit, with the pointer missing or naming a
\* chat that is gone (another tab deleted it)
InitialStorages ==
    { [chats |-> NoItem, current |-> NoItem],
      [chats |-> NotJson, current |-> NoItem],
      [chats |-> JsonItem(StoredAnswered), current |-> NoItem],
      [chats |-> JsonItem(StoredFailed), current |-> StringItem("chat_7")] }

\* new ChatApp(): the constructor and initializeApp; staged is what the
\* user has picked by the time the model takes over
InitWith(staged) ==
    /\ now = 2
    /\ \E st \in InitialStorages, w \in Writes :
          LET S == InitializeApp(Constructed(st), 2, w)
          IN  /\ chats = S.chats
              /\ heap = S.heap
              /\ currentChatId = S.cur
              /\ view = S.view
              /\ storage = S.storage
    /\ selectedImages = staged
    /\ reading = EmptyBag
    /\ inputEnabled = TRUE
    /\ loading = FALSE
    /\ pending = NoRequest
    /\ sends = 0
    /\ RelayIdle

Init == InitWith(<<>>)

\* time passes
Tick ==
    /\ now < MaxTime
    /\ now' = now + 1
    /\ UNCHANGED <<chats, heap, currentChatId, selectedImages, reading,
                   inputEnabled, loading, view, storage, pending, sends, relayVars>>

\* the page is loaded again: the script state is lost, localStorage stays
Reload ==
    /\ now < MaxTime
    /\ now' = now + 1
    /\ \E w \in Writes :
          SetStore(InitializeApp(Constructed(storage), now + 1, w), NoRequest)
    /\ selectedImages' = <<>>
    /\ reading' = EmptyBag
    /\ inputEnabled' = TRUE
    /\ loading' = FALSE
    /\ UNCHANGED <<sends, relayVars>>

\* a click on #new-chat-btn
NewChatClickWith(w) ==
    /\ Len(chats) < MaxChats \/ MapHas(chats, "chat_" \o ToString(now))
    /\ SetStore(CreateNewChat(Store, now, w), pending)
    /\ UNCHANGED <<now, selectedImages, reading, inputEnabled, loading, sends, relayVars>>

NewChatClick == \E w \in Writes : NewChatClickWith(w)

\* a click on an item of the chat list
ChatItemClick ==
    /\ \E chatId \in Range(MapKeys(chats)) :
          SetStore(SwitchToChat(Store, chatId), pending)
    /\ UNCHANGED <<now, selectedImages, reading, inputEnabled, loading, sends, relayVars>>

\* a click on the delete button of an item of the chat list
DeleteClickWith(chatId, w) ==
    /\ SetStore(DeleteChat(Store, chatId, w), pending)
    /\ UNCHANGED <<now, selectedImages, reading, inputEnabled, loading, sends, relayVars>>

DeleteClickOn(chatId) == \E w \in Writes : DeleteClickWith(chatId, w)

DeleteClick == \E chatId \in Range(MapKeys(chats)) : DeleteClickOn(chatId)

\* handleImageSelect: a FileReader is started for each image file
HandleImageSelect ==
    /\ \E files \in Selections :
          LET images == SelectSeq(files, LAMBDA file : StartsWith(file.type, "image/"))
          IN  /\ Len(selectedImages) + BagCardinality(reading) + Len(images) <= MaxStaged
              /\ reading' = reading (+) [f \in Range(images) |-> 1]
    /\ UNCHANGED <<now, chats, heap, currentChatId, selectedImages,
                   inputEnabled, loading, view, storage, pending, sends, relayVars>>

\* a completion that puts its entry at the front of the staged sequence
ReaderOnloadUnshift ==
    /\ \E file \in BagToSet(reading) :
          /\ selectedImages' = <<[file |-> file, dataUrl |-> ReadAsDataURL(file),
                                  name |-> file.name]>> \o selectedImages
          /\ reading' = reading (-) SetToBag({file})
    /\ UNCHANGED <<now, chats, heap, currentChatId,
                   inputEnabled, loading, view, storage, pending, sends, relayVars>>

\* reader.onload of addImagePreview
ReaderOnload ==
    /\ \E file \in BagToSet(reading) :
          /\ selectedImages' = Append(selectedImages,
                                      [file |-> file, dataUrl |-> ReadAsDataURL(file),
                                       name |-> file.name])
          /\ reading' = reading (-) SetToBag({file})
    /\ UNCHANGED <<now, chats, heap, currentChatId,
                   inputEnabled, loading, view, storage, pending, sends, relayVars>>

\* Array.prototype.splice(index, 1)
Splice1(s, index) ==
    LET start == IF index < 0
                 THEN (IF Len(s) + index < 0 THEN 0 ELSE Len(s) + index)
                 ELSE (IF index > Len(s) THEN Len(s) ELSE index)
    IN  SubSeq(s, 1, start) \o SubSeq(s, start + 2, Len(s))

\* removeImage(index)
RemoveImageAt(index) ==
    /\ selectedImages' = Splice1(selectedImages, index)
    /\ UNCHANGED <<now, chats, heap, currentChatId, reading,
                   inputEnabled, loading, view, storage, pending, sends, relayVars>>

\* removeImage(index), from the remove button of a preview
RemoveImage == \E index \in 0..MaxStaged : RemoveImageAt(index)

\* removeImage(index) as a method, called with any integer near the range
RemoveImageCall == \E index \in (0 - MaxStaged - 1)..(MaxStaged + 1) : RemoveImageAt(index)

\* the title is derived whenever the message has text
AnyMessageWithText(messages, message) == message # ""

\* currentChat.messages.length === 1 && message, after the push
FirstMessageWithText(messages, message) == Len(messages) = 1 /\ message # ""

\* the assistant message put in the place of the last message
PushAssistantOverLast(S, currentChat, assistantMessage, t) ==
    [S EXCEPT !.heap[currentChat].messages =
                  SubSeq(@, 1, Len(@) - 1) \o <<assistantMessage>>,
              !.heap[currentChat].updatedAt = t]

\* the push of the assistant message without the refresh of updatedAt
PushAssistantOnly(S, currentChat, assistantMessage, t) ==
    [S EXCEPT !.heap[currentChat].messages = Append(@, assistantMessage)]

\* the push of the assistant message that puts the chat back in the Map
PushAssistantRestore(S, currentChat, assistantMessage, t) ==
    [S EXCEPT !.heap[currentChat].messages = Append(@, assistantMessage),
              !.heap[currentChat].updatedAt = t,
              !.chats = MapSet(@, S.heap[currentChat].id, currentChat)]

\* currentChat.messages.push(assistantMessage) and the refresh of updatedAt
PushAssistant(S, currentChat, assistantMessage, t) ==
    [S EXCEPT !.heap[currentChat].messages = Append(@, assistantMessage),
              !.heap[currentChat].updatedAt = t]

\* the send controls stay disabled
SetInputStateOff(enabled) == inputEnabled' = FALSE

\* setInputState(enabled)
SetInputState(enabled) == inputEnabled' = enabled

\* the send controls dispatch their events whatever their state
SendControlsAlways == TRUE

\* a disabled button dispatches no click and a disabled textarea no keydown
SendControlsEnabled == inputEnabled

\* sendMessage up to its first await, where fetch has issued the request.
\* The click and the Enter key reach it only while the button and the
\* textarea are enabled. input is the value of #user-input. The bound is
\* on the sends begun while no request is in flight.
SendMessage(input, w) ==
    LET message == Trim(input)
    IN  /\ SendControlsEnabled
        /\ sends < MaxSends \/ pending.active
        /\ IF (message = "" /\ Len(selectedImages) = 0) \/ ~HasCurrentChat(Store)
           THEN UNCHANGED vars
           ELSE LET currentChat == GetCurrentChat(Store)
                    messagImages == selectedImages
                    userMessage == [text |-> message, sender |-> "user",
                                    images |-> messagImages, timestamp |-> now]
                    S1 == [Store EXCEPT
                              !.heap[currentChat].messages = Append(@, userMessage),
                              !.view = AddMessage(@, userMessage)]
                    messages == S1.heap[currentChat].messages
                    S2 == IF FirstMessageWithText(messages, message)
                          THEN UpdateChatTitle(S1, S1.heap[currentChat].id,
                                               AutoTitle(message), now, w)
                          ELSE S1
                    conversationHistory == SubSeq(messages, 1, Len(messages) - 1)
                IN  /\ SetStore(S2, [active  |-> TRUE,
                                     chat    |-> currentChat,
                                     request |-> ComposeRequest(message, messagImages,
                                                                conversationHistory),
                                     sentAt  |-> now])
                    /\ SetInputState(FALSE)
                    /\ selectedImages' = <<>>
                    /\ loading' = TRUE
                    /\ sends' = sends + 1
                    /\ UNCHANGED <<now, reading, relayVars>>

\* sendMessage from the await of fetch to its end: the reply arrives, the
\* try block finishes or throws, catch and finally run. Nothing of the
\* application's state is read or written between the two awaits (fetch,
\* response.json()), so they are one step. An answer of the relay takes
\* longer than a tick of the clock.
Response(reply, w) ==
    /\ pending.active
    /\ reply.kind = "response" => now > pending.sentAt
    /\ IF Throws(reply)
       THEN SetStore([Store EXCEPT
                         !.view = AddErrorMessage(@, "Error: " \o ErrorMessage(reply))],
                     NoRequest)
       ELSE LET currentChat == pending.chat
                data == reply.body
                assistantMessage ==
                    IF "response" \in DOMAIN data
                    THEN [text |-> data.response, sender |-> "assistant",
                          images |-> <<>>, timestamp |-> now]
                    ELSE [sender |-> "assistant", images |-> <<>>, timestamp |-> now]
                S1 == PushAssistant(Store, currentChat, assistantMessage, now)
                S2 == SaveChatsToStorage(S1, w)
            IN  SetStore([S2 EXCEPT !.view = AddMessage(@, assistantMessage)], NoRequest)
    /\ SetInputState(TRUE)
    /\ loading' = FALSE
    /\ UNCHANGED <<now, selectedImages, reading, sends, relayVars>>

SendClick == \E input \in Inputs, w \in Writes : SendMessage(input, w)

FetchSettles == \E reply \in Replies, w \in Writes : Response(reply, w)

\* The session store and the chat request: every handler but those of the
\* image picker, so every message is sent without images.
Next ==
    \/ Tick
    \/ Reload
    \/ NewChatClick
    \/ ChatItemClick
    \/ DeleteClick
    \/ SendClick
    \/ FetchSettles

Spec == Init /\ [][Next]_vars

\* The image picker and the composition of the request: the handlers of
\* the picker, sendMessage up to the request, and the page loaded again.
NextCompose ==
    \/ Reload
    \/ HandleImageSelect
    \/ ReaderOnload
    \/ RemoveImage
    \/ SendClick

SpecCompose == Init /\ [][NextCompose]_vars

\* The image picker with removeImage called as a method.
NextRemove ==
    \/ Reload
    \/ HandleImageSelect
    \/ ReaderOnload
    \/ RemoveImageCall
    \/ SendClick

SpecRemove == Init /\ [][NextRemove]_vars

\* The image picker while a request is in flight: the handlers of the
\* picker, sendMessage from the click to its end, and the clock.
NextFlight ==
    \/ Tick
    \/ HandleImageSelect
    \/ ReaderOnload
    \/ RemoveImage
    \/ SendClick
    \/ FetchSettles

SpecFlight == Init /\ [][NextFlight]_vars

\* The chats of an earlier visit: chat_0 was created first and answered
\* last, chat_1 and chat_2 were created after it and never used.
StoredThree ==
    <<[key |-> "chat_0",
       value |-> [id |-> "chat_0", title |-> "Hello",
                  messages |-> <<[text |-> "Hello", sender |-> "user",
                                  images |-> <<>>, timestamp |-> 0],
                                 [text |-> "Hi there", sender |-> "assistant",
                                  images |-> <<>>, timestamp |-> 2]>>,
                  createdAt |-> 0, updatedAt |-> 2]],
      [key |-> "chat_1",
       value |-> [id |-> "chat_1", title |-> "New Chat", messages |-> <<>>,
                  createdAt |-> 1, updatedAt |-> 1]],
      [key |-> "chat_2",
       value |-> [id |-> "chat_2", title |-> "New Chat", messages |-> <<>>,
                  createdAt |-> 2, updatedAt |-> 2]]>>

\* new ChatApp() at clock 3 over these chats
InitStored ==
    /\ now = 3
    /\ \E w \in Writes :
          LET S == InitializeApp(Constructed([chats |-> JsonItem(StoredThree),
                                              current |-> StringItem("chat_2")]), 3, w)
          IN  /\ chats = S.chats
              /\ heap = S.heap
              /\ currentChatId = S.cur
              /\ view = S.view
              /\ storage = S.storage
    /\ selectedImages = <<>>
    /\ reading = EmptyBag
    /\ inputEnabled = TRUE
    /\ loading = FALSE
    /\ pending = NoRequest
    /\ sends = 0
    /\ RelayIdle

\* The session store over the chats of the earlier visit.
NextStored ==
    \/ NewChatClick
    \/ ChatItemClick
    \/ DeleteClick
    \/ SendClick
    \/ FetchSettles

SpecStored == InitStored /\ [][NextStored]_vars

\* The session store and the chat request over a localStorage whose
\* setItem can throw.
QuotaNewChatClick == \E w \in WriteOutcomes : NewChatClickWith(w)

QuotaDeleteClick ==
    \E chatId \in Range(MapKeys(chats)), w \in WriteOutcomes : DeleteClickWith(chatId, w)

QuotaSendClick == \E input \in Inputs, w \in WriteOutcomes : SendMessage(input, w)

QuotaFetchSettles == \E reply \in Replies, w \in WriteOutcomes : Response(reply, w)

NextQuota ==
    \/ Tick
    \/ QuotaNewChatClick
    \/ ChatItemClick
    \/ QuotaDeleteClick
    \/ QuotaSendClick
    \/ QuotaFetchSettles

\* new ChatApp() over an empty localStorage whose setItem can throw
InitQuota ==
    /\ now = 2
    /\ \E w \in WriteOutcomes :
          LET S == InitializeApp(Constructed([chats |-> NoItem, current |-> NoItem]), 2, w)
          IN  /\ chats = S.chats
              /\ heap = S.heap
              /\ currentChatId = S.cur
              /\ view = S.view
              /\ storage = S.storage
    /\ selectedImages = <<>>
    /\ reading = EmptyBag
    /\ inputEnabled = TRUE
    /\ loading = FALSE
    /\ pending = NoRequest
    /\ sends = 0
    /\ RelayIdle

SpecQuota == InitQuota /\ [][NextQuota]_vars

\* new ChatApp() over an empty localStorage
InitFresh ==
    /\ Init
    /\ storage.chats.kind = "json" /\ Len(storage.chats.value) = 1
    /\ heap[MapGet(chats, currentChatId)].createdAt = 2

\* Every handler of the page, on a page that is not loaded again.
NextGate ==
    \/ Tick
    \/ NewChatClick
    \/ ChatItemClick
    \/ DeleteClick
    \/ HandleImageSelect
    \/ ReaderOnload
    \/ RemoveImage
    \/ SendClick
    \/ FetchSettles

SpecGate == InitFresh /\ [][NextGate]_vars

\* What initializeApp can find next to the three chats of the earlier
\* visit: no pointer, the pointer of each chat, or one of a chat that is gone
StoredPointers ==
    { NoItem, StringItem("chat_0"), StringItem("chat_1"), StringItem("chat_2"),
      StringItem("chat_7") }

\* new ChatApp() at clock 2 over the three chats and any of these pointers
InitRestore ==
    /\ now = 2
    /\ \E current \in StoredPointers, w \in Writes :
          LET S == InitializeApp(Constructed([chats |-> JsonItem(StoredThree),
                                              current |-> current]), 2, w)
          IN  /\ chats = S.chats
              /\ heap = S.heap
              /\ currentChatId = S.cur
              /\ view = S.view
              /\ storage = S.storage
    /\ selectedImages = <<>>
    /\ reading = EmptyBag
    /\ inputEnabled = TRUE
    /\ loading = FALSE
    /\ pending = NoRequest
    /\ sends = 0
    /\ RelayIdle

\* The page over the chats of the earlier visit, loaded again at any time.
NextRestore ==
    \/ Tick
    \/ Reload
    \/ ChatItemClick
    \/ DeleteClick
    \/ SendClick
    \/ FetchSettles

SpecRestore == InitRestore /\ [][NextRestore]_vars

\* The title of a chat as a function of its first message: one sendMessage,
\* with or without a staged image, for every prefix of a text as the input.
LongInput == "Tell me a story about a dragon. Now please"

InitTitle == \E staged \in {<<>>, <<CatImage>>} : InitWith(staged)

NextTitle ==
    \E n \in 0..MaxInputLen, w \in Writes : SendMessage(SubSeq(LongInput, 1, n), w)

SpecTitle == InitTitle /\ [][NextTitle]_vars

-----------------------------------------------------------------------------
(* The single-conversation page of src/script.js. It has the image picker  *)
(* of the page above and keeps no chats and no localStorage: chats, heap,  *)
(* currentChatId and storage stay as they are from the start.              *)

\* the request sendMessage of script.js hands to fetch
ScriptComposeRequest(message, images) ==
    IF Len(images) > 0
    THEN [headers |-> {},
          form    |-> <<[name |-> "message", value |-> message]>>
                      \o [i \in 1..Len(images) |->
                             [name |-> "images", value |-> images[i].file]]]
    ELSE [headers |-> {<<"Content-Type", "application/json">>},
          json    |-> [message |-> message]]

\* new ChatApp() of script.js
InitScript ==
    /\ now = 2
    /\ chats = <<>>
    /\ heap = <<>>
    /\ currentChatId = JsUndefined
    /\ storage = [chats |-> NoItem, current |-> NoItem]
    /\ view = <<>>
    /\ selectedImages = <<>>
    /\ reading = EmptyBag
    /\ inputEnabled = TRUE
    /\ loading = FALSE
    /\ pending = NoRequest
    /\ sends = 0
    /\ RelayIdle

\* sendMessage of script.js up to its await of fetch; the staged images
\* stay staged until the finally block
ScriptSendMessage(input) ==
    LET message == Trim(input)
    IN  /\ inputEnabled
        /\ sends < MaxSends
        /\ IF message = "" /\ Len(selectedImages) = 0
           THEN UNCHANGED vars
           ELSE /\ SetInputState(FALSE)
                /\ view' = AddMessage(view, [text |-> message, sender |-> "user",
                                             images |-> selectedImages])
                /\ loading' = TRUE
                /\ pending' = [active  |-> TRUE,
                               request |-> ScriptComposeRequest(message, selectedImages),
                               sentAt  |-> now]
                /\ sends' = sends + 1
                /\ UNCHANGED <<now, chats, heap, currentChatId, storage,
                               selectedImages, reading, relayVars>>

\* sendMessage of script.js from the await of fetch to its end
ScriptResponse(reply) ==
    /\ pending.active
    /\ view' = IF Throws(reply)
               THEN AddErrorMessage(view, "Error: " \o ErrorMessage(reply))
               ELSE AddMessage(view,
                               IF "response" \in DOMAIN reply.body
                               THEN [text |-> reply.body.response,
                                     sender |-> "assistant", images |-> <<>>]
                               ELSE [sender |-> "assistant", images |-> <<>>])
    /\ selectedImages' = <<>>
    /\ SetInputState(TRUE)
    /\ loading' = FALSE
    /\ pending' = NoRequest
    /\ UNCHANGED <<now, chats, heap, currentChatId, storage, reading, sends, relayVars>>

ScriptSendClick == \E input \in Inputs : ScriptSendMessage(input)

ScriptFetchSettles == \E reply \in Replies : ScriptResponse(reply)

NextScript ==
    \/ HandleImageSelect
    \/ ReaderOnload
    \/ RemoveImage
    \/ ScriptSendClick
    \/ ScriptFetchSettles

SpecScript == InitScript /\ [][NextScript]_vars

-----------------------------------------------------------------------------
(* Either page, with a request that is answered in the end. The page of    *)
(* part_001 always holds a chat and the page of script.js never does.      *)

OnChatPage == chats # <<>>

InitLive == Init \/ InitScript

\* the handlers of the session store and of the send, on either page
NextLive ==
    \/ OnChatPage /\ Next
    \/ ~OnChatPage /\ ScriptSendClick
    \/ ~OnChatPage /\ ScriptFetchSettles

\* fetch resolves or rejects in the end
SpecLive ==
    /\ InitLive
    /\ [][NextLive]_vars
    /\ WF_vars(OnChatPage /\ FetchSettles)
    /\ WF_vars(~OnChatPage /\ ScriptFetchSettles)

-----------------------------------------------------------------------------
(* The relay: the Express application of src/unnamed/part_000, which takes  *)
(* images, and the one of src/server.js, which takes a JSON message only.  *)
(* A request is what fetch was handed: headers and a JSON value or the     *)
(* entries of a multipart body. Where one field can hold a string or an    *)
(* array the value carries its type. The bytes of a file are modelled by   *)
(* their base64 text. max_tokens and temperature of the provider request   *)
(* are fixed numbers and are left out.                                     *)

JsString(s) == [type |-> "string", value |-> s]

JsArray(a) == [type |-> "array", value |-> a]

\* upload.array('images', 10)
MaxCount == 10

UpperCase == "ABCDEFGHIJKLMNOPQRSTUVWXYZ"

LowerCase == "abcdefghijklmnopqrstuvwxyz"

\* String.prototype.toLowerCase
RECURSIVE ToLowerCase(_)
ToLowerCase(s) ==
    IF s = "" THEN ""
    ELSE LET c == SubSeq(s, 1, 1)
             up == {i \in 1..Len(UpperCase) : SubSeq(UpperCase, i, i) = c}
         IN  (IF up = {} THEN c
              ELSE LET i == CHOOSE j \in up : TRUE IN SubSeq(LowerCase, i, i))
             \o ToLowerCase(SubSeq(s, 2, Len(s)))

\* path.extname: from the last '.' of the name, '' when there is none or
\* when the name begins with it
ExtName(filename) ==
    LET dots == {i \in 1..Len(filename) : SubSeq(filename, i, i) = "."}
    IN  IF dots = {} THEN ""
        ELSE LET d == CHOOSE i \in dots : \A j \in dots : j <= i
             IN  IF d = 1 THEN "" ELSE SubSeq(filename, d, Len(filename))

\* getMimeType(filename)
GetMimeType(filename) ==
    LET ext == ToLowerCase(ExtName(filename))
    IN  CASE ext = ".jpg"  -> "image/jpeg"
          [] ext = ".jpeg" -> "image/jpeg"
          [] ext = ".png"  -> "image/png"
          [] ext = ".gif"  -> "image/gif"
          [] ext = ".webp" -> "image/webp"
          [] OTHER         -> "image/jpeg"

\* encodeImageToBase64(buffer)
EncodeImageToBase64(buffer) == buffer

\* the text fields of a multipart body, as multer puts them in req.body
FormFields(form) ==
    LET texts == SelectSeq(form, LAMBDA e : e.name # "images")
    IN  [n \in {texts[i].name : i \in 1..Len(texts)} |->
            texts[CHOOSE i \in 1..Len(texts) :
                     /\ texts[i].name = n
                     /\ \A j \in 1..Len(texts) : texts[j].name = n => j <= i].value]

\* the files of the field 'images', as multer puts them in req.files
FormFiles(form) ==
    LET files == SelectSeq(form, LAMBDA e : e.name = "images")
    IN  [i \in 1..Len(files) |-> [originalname |-> files[i].value.name,
                                   mimetype     |-> files[i].value.type,
                                   buffer       |-> files[i].value.bytes]]

\* express.json() and upload.array('images', 10) with its fileFilter: the
\* request as the handler finds it, or the error handed to next(err). A
\* body that is not multipart leaves req.files undefined.
Upload(request) ==
    IF "form" \notin DOMAIN request
    THEN [error |-> FALSE, body |-> request.json]
    ELSE LET files == FormFiles(request.form)
         IN  IF \/ Len(files) > MaxCount
                \/ \E i \in 1..Len(files) : ~StartsWith(files[i].mimetype, "image/")
             THEN [error |-> TRUE]
             ELSE [error |-> FALSE, body |-> FormFields(request.form), files |-> files]

\* express.json() of server.js, for a request with a JSON body
JsonBody(request) == [error |-> FALSE, body |-> request.json]

\* !message, for the property of req.body
NoMessage(body) == "message" \notin DOMAIN body \/ body.message = ""

\* !process.env.OPENAI_API_KEY
NoApiKey(key) == key = JsUndefined \/ key = ""

MessageRequiredText == "Message is required"

MessageOrImagesRequiredText == "Message or images are required"

NotConfiguredText ==
    "OpenAI API key not configured. Please add OPENAI_API_KEY to your .env file."

InvalidKeyText ==
    "Invalid OpenAI API key. Please check your OPENAI_API_KEY in the .env file."

InvalidRequestText == "Invalid request to OpenAI API. Please check your message."

FailedText == "Failed to get response from ChatGPT. Please try again."

InternalErrorText == "Internal server error"

\* res.status(status).json(body)
Answer(status, body) == [status |-> status, body |-> body]

\* axios.post(url, data, config)
AxiosPost(model, content, key) ==
    [url     |-> "https://api.openai.com/v1/chat/completions",
     data    |-> [model |-> model,
                  messages |-> <<[role |-> "user", content |-> content]>>],
     headers |-> [Authorization |-> "Bearer " \o key,
                  ContentType   |-> "application/json"]]

\* the handler returned after it answered, without a call of the provider
Returned(answer) == [stage |-> "finished", calls |-> <<>>, answers |-> <<answer>>]

\* the handler is suspended at its await of axios.post
Awaiting(call) == [stage |-> "awaiting", calls |-> <<call>>, answers |-> <<>>]

\* the handler of part_000 up to its await, for the request multer made
ChatHandler(req, key) ==
    LET body == req.body
        images == IF "files" \in DOMAIN req THEN req.files ELSE <<>>
    IN  IF NoMessage(body) /\ Len(images) = 0
        THEN Returned(Answer(400, [error |-> MessageOrImagesRequiredText]))
        ELSE IF NoApiKey(key)
        THEN Returned(Answer(500, [error |-> NotConfiguredText]))
        ELSE LET textContent ==
                     IF ~NoMessage(body) /\ Trim(body.message) # ""
                     THEN <<[type |-> "text", text |-> body.message]>>
                     ELSE <<>>
                 imageContent ==
                     [i \in 1..Len(images) |->
                         [type |-> "image_url",
                          image_url |->
                             [url |-> "data:" \o GetMimeType(images[i].originalname)
                                      \o ";base64,"
                                      \o EncodeImageToBase64(images[i].buffer)]]]
                 messageContent == textContent \o imageContent
                 model == IF Len(images) > 0 THEN "gpt-4-vision-preview"
                          ELSE "gpt-3.5-turbo"
                 content == IF Len(messageContent) = 1 /\ messageContent[1].type = "text"
                            THEN JsString(messageContent[1].text)
                            ELSE JsArray(messageContent)
             IN  Awaiting(AxiosPost(model, content, key))

\* the handler of server.js up to its await
ServerChatHandler(req, key) ==
    LET body == req.body
    IN  IF NoMessage(body)
        THEN Returned(Answer(400, [error |-> MessageRequiredText]))
        ELSE IF NoApiKey(key)
        THEN Returned(Answer(500, [error |-> NotConfiguredText]))
        ELSE Awaiting(AxiosPost("gpt-3.5-turbo", JsString(body.message), key))

\* the catch block that answers every error with 500
CatchAnswerAlways500(error) == Answer(500, [error |-> FailedText])

\* the catch block; error.response is undefined for an error that is not
\* an answer of the provider
CatchAnswer(error) ==
    LET status == IF "response" \in DOMAIN error THEN error.response.status ELSE 0
    IN  IF status = 401 THEN Answer(401, [error |-> InvalidKeyText])
        ELSE IF status = 429 THEN Answer(429, [error |-> RateLimitText])
        ELSE IF status = 400 THEN Answer(400, [error |-> InvalidRequestText])
        ELSE Answer(500, [error |-> FailedText])

\* the handler from its await to its end: choices[0] of a fulfilled call
\* is read, which throws a TypeError when there is none
AfterAwait(outcome) ==
    IF outcome.kind = "fulfilled"
    THEN IF Len(outcome.data.choices) > 0
         THEN Answer(200, [response |-> outcome.data.choices[1].message.content])
         ELSE CatchAnswer([message |-> "Cannot read properties of undefined"])
    ELSE CatchAnswer(outcome.error)

\* the images a page can have staged
DogImage == [file |-> DogFile, dataUrl |-> ReadAsDataURL(DogFile), name |-> DogFile.name]

ScanFile == [name |-> "Scan.2.PNG", type |-> "image/png", bytes |-> "c2Nhbg=="]

ScanImage == [file |-> ScanFile, dataUrl |-> ReadAsDataURL(ScanFile), name |-> ScanFile.name]

\* the requests that reach POST /api/chat of part_000: those of the page,
\* and those of other clients: no message, an empty one, one of spaces,
\* in JSON or multipart, and a file that is no image
RelayRequests ==
    { ComposeRequest("Hello", <<>>, <<>>),
      ComposeRequest("Hello", <<CatImage>>, <<>>),
      ComposeRequest("", <<CatImage>>, <<>>),
      ComposeRequest("", <<DogImage, CatImage>>, <<>>),
      ComposeRequest("What is this?", <<ScanImage>>, <<>>),
      [headers |-> {<<"Content-Type", "application/json">>}, json |-> EmptyObject],
      [headers |-> {<<"Content-Type", "application/json">>}, json |-> [message |-> ""]],
      [headers |-> {<<"Content-Type", "application/json">>}, json |-> [message |-> "  "]],
      [headers |-> {}, form |-> <<[name |-> "message", value |-> "  "]>>],
      [headers |-> {}, form |-> <<[name |-> "message", value |-> "Hello"],
                                  [name |-> "images", value |-> NotesFile]>>] }

\* the requests that reach POST /api/chat of server.js: JSON bodies
ServerRequests == {request \in RelayRequests : "json" \in DOMAIN request}

\* what axios.post settles with: the answer of the provider, with or
\* without a choice, an answer with a status that is no success, or no
\* answer at all
Outcomes ==
    { [kind |-> "fulfilled",
       data |-> [choices |-> <<[message |-> [role |-> "assistant",
                                             content |-> "Hi there"]]>>]],
      [kind |-> "fulfilled", data |-> [choices |-> <<>>]],
      [kind |-> "rejected", error |-> [message |-> "Network Error"]] }
    \cup { [kind |-> "rejected",
            error |-> [message |-> "Request failed with status code " \o ToString(status),
                       response |-> [status |-> status]]] :
           status \in {400, 401, 403, 429, 503} }

\* process.env.OPENAI_API_KEY: set, set to nothing, or not set
ApiKeys == {"sk-test", "", JsUndefined}

\* no page is open
NoPage ==
    /\ now = 0
    /\ chats = <<>>
    /\ heap = <<>>
    /\ currentChatId = JsNull
    /\ selectedImages = <<>>
    /\ reading = EmptyBag
    /\ inputEnabled = TRUE
    /\ loading = FALSE
    /\ view = <<>>
    /\ storage = [chats |-> NoItem, current |-> NoItem]
    /\ pending = NoRequest
    /\ sends = 0

\* app.listen: either relay is started, with or without its key
InitRelay ==
    /\ NoPage
    /\ server \in {"unnamed/part_000", "server.js"}
    /\ apiKey \in ApiKeys
    /\ exchange = NoExchange

\* the exchange of a request whose handler has reached the state h
Handling(request, h) ==
    [stage |-> h.stage, request |-> request, calls |-> h.calls, answers |-> h.answers]

\* POST /api/chat of part_000: multer, then the handler up to its await
\* or its return, or the error handling middleware
PostApiChat(request) ==
    /\ server = "unnamed/part_000"
    /\ exchange.stage # "awaiting"
    /\ LET req == Upload(request)
       IN  exchange' = Handling(request,
                          IF req.error
                          THEN Returned(Answer(500, [error |-> InternalErrorText]))
                          ELSE ChatHandler(req, apiKey))
    /\ UNCHANGED <<pageVars, server, apiKey>>

\* POST /api/chat of server.js
ServerPostApiChat(request) ==
    /\ server = "server.js"
    /\ exchange.stage # "awaiting"
    /\ exchange' = Handling(request, ServerChatHandler(JsonBody(request), apiKey))
    /\ UNCHANGED <<pageVars, server, apiKey>>

\* axios.post settles and the handler runs to its end, with what the call
\* settled with in its response or error; the code is the same in both
\* relays
AxiosSettles(outcome) ==
    /\ exchange.stage = "awaiting"
    /\ exchange' = [stage    |-> "finished",
                    request  |-> exchange.request,
                    calls    |-> exchange.calls,
                    settled  |-> outcome,
                    answers  |-> Append(exchange.answers, AfterAwait(outcome))]
    /\ UNCHANGED <<pageVars, server, apiKey>>

PostChat == \E request \in RelayRequests : PostApiChat(request)

ServerPostChat == \E request \in ServerRequests : ServerPostApiChat(request)

ProviderSettles == \E outcome \in Outcomes : AxiosSettles(outcome)

NextRelay ==
    \/ PostChat
    \/ ServerPostChat
    \/ ProviderSettles

SpecRelay == InitRelay /\ [][NextRelay]_vars

-----------------------------------------------------------------------------
(* The claims about the session store. *)

\* a step of sendMessage: up to the request, or from the reply to the end
SendStep == ~pending.active /\ pending'.active

ReplyStep == pending.active /\ ~pending'.active /\ now' = now

\* the chat a suspended sendMessage holds is no longer in the Map
SendingChatIsGone == pending.active /\ pending.chat \notin MapRefs(chats)

(* C1: once the application is initialised, from empty, valid or unreadable *)
(* stored content, the store holds at least one session in every reachable  *)
(* state, and deleteChat on the only remaining session changes nothing.     *)
C1_AlwaysASession ==
    /\ [](Len(chats) >= 1)
    /\ [][(Len(chats) = 1 /\ DeleteClick) => UNCHANGED vars]_vars

\* the chat that was sending has been deleted and one chat is left
C1_Witness == SendingChatIsGone /\ Len(chats) = 1

(* C2: after initialisation and after any sequence of create, switch,       *)
(* delete and send, currentChatId is the key of a session of the store,     *)
(* also after the current session was deleted and after a stored pointer    *)
(* that is null or stale was loaded.                                        *)
C2_CurrentExists == \E i \in 1..Len(chats) : chats[i].key = currentChatId

\* the stored pointer that was loaded names no chat, and a message was sent
C2_Witness ==
    /\ pending.active
    /\ storage.current.kind = "string"
    /\ \A i \in 1..Len(storage.chats.value) :
          storage.chats.value[i].key # storage.current.value

-----------------------------------------------------------------------------
(* The claims about the chat request and its reply. The replies are told   *)
(* apart here by what the relay sent, not by what the client makes of it.  *)

SuccessStatus(reply) == reply.kind = "response" /\ reply.status \in 200..299

RelaySucceeded(reply) ==
    SuccessStatus(reply) /\ DOMAIN reply.body = {"response"}

RelayFailed(reply) ==
    \/ reply.kind = "rejected"
    \/ ~SuccessStatus(reply)
    \/ "error" \in DOMAIN reply.body

\* the value of the field `message` of a request
RequestMessage(request) ==
    IF "json" \in DOMAIN request THEN request.json.message
    ELSE LET i == CHOOSE j \in 1..Len(request.form) : request.form[j].name = "message"
         IN  request.form[i].value

\* message.text, which may be undefined
TextOf(m) == IF "text" \in DOMAIN m THEN m.text ELSE JsUndefined

\* the application handles reply in this step
Handles(reply) == \E w \in Writes : Response(reply, w)

C4_RelayMessageShown ==
    [][ \A reply \in Replies :
           ( /\ reply.kind = "response"
             /\ ~SuccessStatus(reply)
             /\ "error" \in DOMAIN reply.body
             /\ Handles(reply) ) =>
               /\ Len(view') = Len(view) + 1
               /\ Last(view').kind = "error"
               /\ Last(view').divs \in {<<reply.body.error>>,
                                        <<"Error: " \o reply.body.error>>}
      ]_vars

(* C5: when a send fails for any reason (network failure, non-success      *)
(* status, success body with an error field), no assistant message is      *)
(* appended to any session: the message sequence of the sending session    *)
(* stays as it was right after the user message was appended, and an error *)
(* entry is shown instead.                                                 *)
C5_FailureAppendsNothing ==
    [][ \A reply \in Replies :
           (RelayFailed(reply) /\ Handles(reply)) =>
               /\ \A r \in DOMAIN heap' : heap'[r].messages = heap[r].messages
               /\ pending.chat \in MapRefs(chats) =>
                     /\ Last(heap'[pending.chat].messages).sender = "user"
                     /\ Last(heap'[pending.chat].messages).text
                           = RequestMessage(pending.request)
               /\ Len(view') = Len(view) + 1
               /\ SubSeq(view', 1, Len(view)) = view
               /\ Last(view').kind = "error"
      ]_vars

\* a send has failed: the view ends with the error, the chat with the
\* user's message
C5_Witness ==
    /\ ~pending.active
    /\ Len(view) >= 2
    /\ Last(view).kind = "error"
    /\ view[Len(view) - 1].kind = "message"
    /\ view[Len(view) - 1].sender = "user"
    /\ Last(heap[MapGet(chats, currentChatId)].messages).sender = "user"

(* C6: the title of a session after its first message with text t: t       *)
(* itself if t is not empty and has at most 30 characters (so at exactly   *)
(* 30), the first 30 characters of t followed by "..." if t has 31 or      *)
(* more, and still "New Chat" if t is empty (a message of images only).    *)
C6_AutoTitle ==
    (pending.active /\ Len(heap[pending.chat].messages) = 1) =>
        LET chat == heap[pending.chat]
            t == chat.messages[1].text
        IN  /\ (t # "" /\ Len(t) <= 30) => chat.title = t
            /\ Len(t) >= 31 =>
                  /\ Len(chat.title) = 33
                  /\ SubSeq(chat.title, 1, 30) = SubSeq(t, 1, 30)
                  /\ SubSeq(chat.title, 31, 33) = "..."
            /\ t = "" => chat.title = "New Chat"

\* the first message of a chat has exactly 30 characters
C6_Witness ==
    /\ pending.active
    /\ Len(heap[pending.chat].messages) = 1
    /\ Len(heap[pending.chat].messages[1].text) = 30
    /\ heap[pending.chat].title = "Tell me a story about a dragon"

(* C7: the title of a session is derived at most once, by the first        *)
(* message ever appended to it: once a session holds a message, no later   *)
(* sendMessage, successful or failed, changes its title; a session whose   *)
(* first message had no text, or whose first send failed, is not given a   *)
(* title by a later message.                                               *)
C7_TitleOnlyOnce ==
    [][ (SendStep \/ ReplyStep) =>
           \A r \in (DOMAIN heap) \cap (DOMAIN heap') :
              Len(heap[r].messages) >= 1 => heap'[r].title = heap[r].title
      ]_vars

\* a chat that began with a message of no text has received a later
\* message with text and is still called "New Chat"
C7_Witness ==
    \E r \in DOMAIN heap :
       LET ms == heap[r].messages
       IN  /\ Len(ms) >= 3
           /\ TextOf(ms[1]) = ""
           /\ Last(ms).sender = "user" /\ TextOf(Last(ms)) = "Hello"
           /\ heap[r].title = "New Chat"

-----------------------------------------------------------------------------
(* The claims about the composition of the request. *)

\* m is input without its leading and trailing white space
IsTrimOf(m, input) ==
    \E i \in 0..Len(input) : \E j \in i..Len(input) :
       /\ m = SubSeq(input, i + 1, j)
       /\ \A k \in (1..i) \cup ((j + 1)..Len(input)) : IsSpace(SubSeq(input, k, k))
       /\ m # "" => ~IsSpace(SubSeq(m, 1, 1)) /\ ~IsSpace(SubSeq(m, Len(m), Len(m)))

\* conversation holds the messages ms, in their order
SameMessages(conversation, ms) ==
    /\ Len(conversation) = Len(ms)
    /\ \A k \in 1..Len(ms) :
          /\ conversation[k].sender = ms[k].sender
          /\ TextOf(conversation[k]) = TextOf(ms[k])
          /\ conversation[k].timestamp = ms[k].timestamp
          /\ Len(conversation[k].images) = Len(ms[k].images)
          /\ \A i \in 1..Len(ms[k].images) :
                /\ conversation[k].images[i].name = ms[k].images[i].name
                /\ conversation[k].images[i].dataUrl = ms[k].images[i].dataUrl

\* sendMessage runs on input in this step and issues a request
Sends(input) == SendStep /\ \E w \in Writes : SendMessage(input, w)

FormValues(request, name) ==
    LET entries == SelectSeq(request.form, LAMBDA e : e.name = name)
    IN  [i \in 1..Len(entries) |-> entries[i].value]

(* C8: a send with no staged image produces a JSON request, with           *)
(* Content-Type application/json, whose body holds exactly message, the    *)
(* trimmed input, and conversation, all messages the session held before   *)
(* this send, in order and without the message being sent; conversation is *)
(* present for every length of the history, zero included.                 *)
C8_JsonRequest ==
    [][ \A input \in Inputs :
           (Sends(input) /\ Len(selectedImages) = 0) =>
               LET request == pending'.request
                   before == heap[MapGet(chats, currentChatId)].messages
               IN  /\ DOMAIN request = {"headers", "json"}
                   /\ request.headers = {<<"Content-Type", "application/json">>}
                   /\ DOMAIN request.json = {"message", "conversation"}
                   /\ IsTrimOf(request.json.message, input)
                   /\ SameMessages(request.json.conversation, before)
      ]_vars

\* the first message of a chat is on its way, with an empty conversation
C8_Witness ==
    /\ pending.active
    /\ "json" \in DOMAIN pending.request
    /\ pending.request.json.message = "Hello"
    /\ pending.request.json.conversation = <<>>
    /\ Len(heap[pending.chat].messages) = 1

(* C9: a send with N >= 1 staged images produces a multipart request with  *)
(* exactly N `images` entries, in the order of the staged sequence at the  *)
(* moment of the send, with the fields message and conversation and no     *)
(* Content-Type header set by the client; images staged or removed after   *)
(* the send do not alter that request. Stated of the send of either page.  *)
C9_MultipartRequest ==
    [][ /\ (SendStep /\ Len(selectedImages) >= 1) =>
              LET request == pending'.request
              IN  /\ DOMAIN request = {"headers", "form"}
                  /\ request.headers = {}
                  /\ FormValues(request, "images")
                        = [i \in 1..Len(selectedImages) |-> selectedImages[i].file]
                  /\ Len(FormValues(request, "message")) = 1
                  /\ \E input \in Inputs :
                        IsTrimOf(FormValues(request, "message")[1], input)
                  /\ Len(FormValues(request, "conversation")) = 1
                  /\ HasCurrentChat(Store) =>
                        SameMessages(FormValues(request, "conversation")[1],
                                     heap[MapGet(chats, currentChatId)].messages)
                  /\ {request.form[i].name : i \in 1..Len(request.form)}
                        = {"message", "conversation", "images"}
        /\ (pending.active /\ pending'.active) => pending'.request = pending.request
      ]_vars

-----------------------------------------------------------------------------
(* The claims about persistence. *)

\* what a session collection holds: per session, in the order of the Map,
\* its identifier, title and times, and of each message the text, sender,
\* time, and the names and preview data of its attachments
Contents(S) ==
    [i \in 1..Len(S.chats) |->
        LET chat == S.heap[S.chats[i].ref]
        IN  [key |-> S.chats[i].key, id |-> chat.id, title |-> chat.title,
             createdAt |-> chat.createdAt, updatedAt |-> chat.updatedAt,
             messages |-> [k \in 1..Len(chat.messages) |->
                 LET m == chat.messages[k]
                 IN  [text |-> TextOf(m), sender |-> m.sender,
                      timestamp |-> m.timestamp,
                      attachments |-> [j \in 1..Len(m.images) |->
                          [name |-> m.images[j].name,
                           dataUrl |-> m.images[j].dataUrl]]]]]]

-----------------------------------------------------------------------------
(* The claims about the image picker. *)

C12_StagedEmptyAfterSend ==
    [][ReplyStep => selectedImages' = <<>>]_vars

-----------------------------------------------------------------------------
(* The claims about the times and the persistence of the sessions. *)

(* C13: deleteChat(id) where id is the current session and at least two    *)
(* sessions exist: the new current session is the remaining session with   *)
(* the greatest updatedAt.                                                 *)
C13_DeleteSelectsLatest ==
    [][ \A chatId \in Range(MapKeys(chats)) :
           (DeleteClickOn(chatId) /\ currentChatId = chatId /\ Len(chats) >= 2) =>
              /\ MapHas(chats', currentChatId')
              /\ currentChatId' # chatId
              /\ \A i \in 1..Len(chats') :
                    heap'[chats'[i].ref].updatedAt
                       <= heap'[MapGet(chats', currentChatId')].updatedAt
      ]_vars

\* a message is appended to the chat at r in this step
Appends(r) ==
    /\ r \in DOMAIN heap /\ r \in DOMAIN heap'
    /\ Len(heap'[r].messages) = Len(heap[r].messages) + 1

(* C14: every append of a message to a session, the user message at send   *)
(* time as well as the assistant message on success, sets the session's    *)
(* updatedAt to the time of the append.                                    *)
C14_AppendRefreshesUpdatedAt ==
    [][ (SendStep \/ ReplyStep) =>
           \A r \in DOMAIN heap : Appends(r) => heap'[r].updatedAt = now
      ]_vars

\* the chats localStorage holds, and <<>> when it holds none that parse
Persisted ==
    IF storage.chats.kind = "json" THEN storage.chats.value ELSE <<>>

(* C15: every append of a message persists the store: whenever no handler  *)
(* is running and no storage write has failed, the persisted session       *)
(* collection contains every message held in memory, including a user      *)
(* message whose send later failed.                                        *)
C15_AppendsArePersisted ==
    ~pending.active =>
       \A i \in 1..Len(chats) :
          \E j \in 1..Len(Persisted) :
             /\ Persisted[j].key = chats[i].key
             /\ SameMessages(Persisted[j].value.messages, heap[chats[i].ref].messages)

(* C16: every message in every session, user or assistant, has non-empty   *)
(* text or at least one attachment, in every reachable state and for every *)
(* relay response, a success response whose response field is empty or     *)
(* missing included.                                                       *)
C16_NoEmptyMessage ==
    \A r \in DOMAIN heap :
       \A k \in 1..Len(heap[r].messages) :
          LET m == heap[r].messages[k]
          IN  ("text" \in DOMAIN m /\ m.text # "") \/ Len(m.images) >= 1

-----------------------------------------------------------------------------
(* The claims about the gate of the send controls. *)

(* C17: at any time at most one chat request is in flight, and the send    *)
(* button and the text input are disabled exactly while a request is in    *)
(* flight; so between the append of a user message and the arrival of its  *)
(* response or failure no other sendMessage issues a request or appends to *)
(* any session, whatever switch, create, delete or staging actions are     *)
(* interleaved.                                                            *)
C17_OneRequestInFlight ==
    /\ [](inputEnabled <=> ~pending.active)
    /\ [][ (pending.active /\ pending'.active) =>
              /\ pending' = pending
              /\ \A r \in (DOMAIN heap) \cap (DOMAIN heap') :
                    heap'[r].messages = heap[r].messages
         ]_vars

\* while a request is in flight the user has moved to another chat and
\* staged an image
C17_Witness ==
    /\ pending.active
    /\ ~inputEnabled
    /\ currentChatId # heap[pending.chat].id
    /\ Len(selectedImages) >= 1

\* the page handles reply in this step
Settles(reply) ==
    \/ OnChatPage /\ Handles(reply)
    \/ ~OnChatPage /\ ScriptResponse(reply)

(* C18: every send that disables the input is eventually followed by the   *)
(* input being enabled again, provided the request eventually resolves or  *)
(* rejects; after every error outcome (network failure, non-success        *)
(* status, error body) the input and the send button are enabled and the   *)
(* loading indicator is hidden.                                            *)
C18_InputReenabled ==
    /\ (~inputEnabled) ~> inputEnabled
    /\ [][ \A reply \in Replies :
              (RelayFailed(reply) /\ Settles(reply)) => (inputEnabled' /\ ~loading')
         ]_vars

\* an error outcome has been handled: its entry is the last of the view,
\* the input is enabled and the loading indicator is hidden
C18_Witness ==
    /\ view # <<>>
    /\ Last(view).kind = "error"
    /\ inputEnabled
    /\ ~loading
    /\ sends >= 1

-----------------------------------------------------------------------------
(* The claims about what sendMessage and createNewChat leave alone. *)

\* input holds nothing but white space
AllSpace(input) == \A k \in 1..Len(input) : IsSpace(SubSeq(input, k, k))

(* C19: sendMessage invoked with input text that is empty after trimming   *)
(* and with no staged images issues no request and changes nothing: no     *)
(* message is appended, the staged sequence, the sessions, the persisted   *)
(* data and the enabled state of the input are all unchanged.              *)
C19_EmptySendChangesNothing ==
    /\ [][ \A input \in Inputs :
              (AllSpace(input) /\ Len(selectedImages) = 0
                 /\ \E w \in Writes : SendMessage(input, w)) => UNCHANGED vars
         ]_vars
    /\ [](pending.active =>
             \/ RequestMessage(pending.request) # ""
             \/ "form" \in DOMAIN pending.request)

\* sendMessage can be invoked with nothing to send: the controls are
\* enabled, nothing is staged, and a whitespace input is among the inputs
C19_Witness ==
    /\ SendControlsEnabled
    /\ Len(selectedImages) = 0
    /\ HasCurrentChat(Store)
    /\ heap[GetCurrentChat(Store)].messages # <<>>
    /\ sends < MaxSends
    /\ \E input \in Inputs : AllSpace(input) /\ Len(input) >= 1

(* C20: createNewChat always adds a session whose identifier differs from  *)
(* the identifier of every session already in the store, so the number of  *)
(* sessions grows by exactly one and no existing session or its messages   *)
(* is replaced; the new session has title "New Chat", no messages, becomes *)
(* current, and is persisted. This holds for any two calls, including two  *)
(* calls within the same clock tick.                                       *)
C20_CreateAddsFreshChat ==
    [][ NewChatClick =>
           /\ Len(chats') = Len(chats) + 1
           /\ \A i \in 1..Len(chats) :
                 /\ chats'[i].key = chats[i].key
                 /\ heap'[chats'[i].ref].messages = heap[chats[i].ref].messages
           /\ Last(chats').key \notin Range(MapKeys(chats))
           /\ currentChatId' = Last(chats').key
           /\ heap'[Last(chats').ref].title = "New Chat"
           /\ heap'[Last(chats').ref].messages = <<>>
           /\ \E j \in 1..Len(Persisted') : Persisted'[j].key = currentChatId'
      ]_vars

-----------------------------------------------------------------------------
(* The claims about localStorage. *)

\* what the operation that saves with outcome w does in this step to the
\* chats in memory and to the page: the new session, the deletion, the
\* first message with its title, the appended answer
InMemoryEffect(w) ==
    /\ NewChatClickWith(w) =>
          LET id == "chat_" \o ToString(now)
          IN  /\ MapHas(chats', id)
              /\ currentChatId' = id
              /\ heap'[MapGet(chats', id)].messages = <<>>
              /\ heap'[MapGet(chats', id)].title = "New Chat"
    /\ \A chatId \in Range(MapKeys(chats)) :
          (DeleteClickWith(chatId, w) /\ Len(chats) >= 2) =>
              /\ ~MapHas(chats', chatId)
              /\ MapHas(chats', currentChatId')
    /\ \A input \in Inputs :
          (SendMessage(input, w) /\ ~AllSpace(input)) =>
              /\ pending'.active
              /\ LET chat == heap'[pending'.chat]
                     m == Last(chat.messages)
                 IN  /\ m.sender = "user"
                     /\ IsTrimOf(TextOf(m), input)
                     /\ Len(chat.messages) = 1 => chat.title = TextOf(m)
    /\ \A reply \in Replies :
          (RelaySucceeded(reply) /\ Response(reply, w)) =>
              /\ inputEnabled' /\ ~loading'
              /\ Last(view').kind = "message" /\ Last(view').sender = "assistant"
              /\ pending.chat \in MapRefs(chats) =>
                    Last(heap'[pending.chat].messages).sender = "assistant"

(* C21, as stated: a failing storage write in saveChatsToStorage is caught *)
(* and never aborts the operation that triggered it: the in-memory         *)
(* mutation stays in effect, the operation runs to completion, and the     *)
(* persisted data keeps its previous content.                              *)
C21_FailedWriteKeepsStorage ==
    [][ \A w \in WriteOutcomes \ {"stored"} :
           /\ InMemoryEffect(w)
           /\ ( \/ NewChatClickWith(w)
                \/ \E chatId \in Range(MapKeys(chats)) : DeleteClickWith(chatId, w)
                \/ \E input \in Inputs : SendMessage(input, w)
                \/ \E reply \in Replies : Response(reply, w) ) => storage' = storage
      ]_vars

(* C21, amended: a failing storage write is caught and never aborts the    *)
(* operation that triggered it: the in-memory mutation stays in effect and *)
(* the operation runs to completion; when the first setItem throws the     *)
(* persisted data keeps its previous content, and when the second throws   *)
(* the persisted identifier of the current session keeps its previous      *)
(* value while the persisted collection is the new one.                    *)
C21_FailedWriteIsCaught ==
    [][ \A w \in WriteOutcomes \ {"stored"} :
           /\ InMemoryEffect(w)
           /\ ( \/ NewChatClickWith(w)
                \/ \E chatId \in Range(MapKeys(chats)) : DeleteClickWith(chatId, w)
                \/ \E input \in Inputs : SendMessage(input, w)
                \/ \E reply \in Replies : Response(reply, w) ) =>
                 /\ storage'.current = storage.current
                 /\ w = "first throws" => storage' = storage
                 /\ w = "second throws" =>
                       \/ storage'.chats = storage.chats
                       \/ storage'.chats = JsonItem(JSONEntries(chats', heap'))
      ]_vars

\* an answer has been appended in memory and shown, the input is enabled
\* again, and localStorage holds no chats at all: every write has failed
C21_Witness ==
    /\ storage.chats.kind = "absent"
    /\ inputEnabled /\ ~pending.active
    /\ \E i \in 1..Len(chats) :
          LET ms == heap[chats[i].ref].messages
          IN  Len(ms) >= 2 /\ Last(ms).sender = "assistant"

-----------------------------------------------------------------------------
(* The claim about the reads of the image picker. *)

\* the content type of file is an image type
IsImageFile(file) == Len(file.type) >= 6 /\ SubSeq(file.type, 1, 6) = "image/"

(* C22: several image reads may be in flight at once and complete in any   *)
(* order: a selection starts one read for each of its files of an image    *)
(* type and stages nothing, each completion appends exactly one entry, for *)
(* a file that was being read, to the end of the staged sequence, and      *)
(* files whose type is not an image type are never read or staged.         *)
C22_ReadsStageOnce ==
    /\ [](/\ \A i \in 1..Len(selectedImages) : IsImageFile(selectedImages[i].file)
          /\ \A file \in BagToSet(reading) : IsImageFile(file))
    /\ [][ /\ ReaderOnload =>
                LET n == Len(selectedImages)
                    entry == selectedImages'[n + 1]
                IN  /\ Len(selectedImages') = n + 1
                    /\ SubSeq(selectedImages', 1, n) = selectedImages
                    /\ BagIn(entry.file, reading)
                    /\ reading' (+) SetToBag({entry.file}) = reading
                    /\ entry.name = entry.file.name
           /\ HandleImageSelect =>
                /\ selectedImages' = selectedImages
                /\ \E files \in Selections :
                      /\ BagCardinality(reading') = BagCardinality(reading)
                            + Cardinality({i \in 1..Len(files) : IsImageFile(files[i])})
                      /\ \A i \in 1..Len(files) :
                            IsImageFile(files[i]) =>
                               CopiesIn(files[i], reading') = CopiesIn(files[i], reading) + 1
         ]_vars

\* the two images of a selection are staged in the order their reads
\* completed, which is not the order of the selection; no read is pending
C22_Witness ==
    /\ reading = EmptyBag
    /\ Len(selectedImages) = 2
    /\ selectedImages[1].file = CatFile
    /\ selectedImages[2].file = DogFile

-----------------------------------------------------------------------------
(* The claims about the sessions over time. *)

-----------------------------------------------------------------------------
(* The claims about the view, a deleted chat and the stored pointer. *)

\* the entries of the view that addMessage made
ViewMessages == SelectSeq(view, LAMBDA e : e.kind = "message")

(* C25: the conversation view shows the messages of the current session:   *)
(* the message entries of the view are the rendering of the current        *)
(* session's messages in every reachable state, so a reply is rendered     *)
(* only while the session it answers is the current one.                   *)
C25_ViewShowsCurrent ==
    /\ MapHas(chats, currentChatId)
    /\ ViewMessages = RenderChatHistory(heap[MapGet(chats, currentChatId)].messages)

\* the chat a suspended sendMessage holds was deleted: its object is not in
\* the Map and neither is its identifier
SendingChatIsDeleted ==
    SendingChatIsGone /\ ~MapHas(chats, heap[pending.chat].id)

(* C26: a session deleted while its send is in flight never comes back:    *)
(* in the step that handles the late response or failure the keys of the   *)
(* Map and of the persisted collection are unchanged and do not contain    *)
(* the identifier of the deleted session, and currentChatId is unchanged.  *)
C26_DeletedStaysDeleted ==
    [][ (SendingChatIsDeleted /\ ReplyStep) =>
           LET deleted == heap[pending.chat].id
               stored == [i \in 1..Len(Persisted') |-> Persisted'[i].key]
           IN  /\ MapKeys(chats') = MapKeys(chats)
               /\ stored = [i \in 1..Len(Persisted) |-> Persisted[i].key]
               /\ deleted \notin Range(MapKeys(chats'))
               /\ deleted \notin Range(stored)
               /\ currentChatId' = currentChatId
      ]_vars

\* the answer to the one send of this page has arrived and is in the view,
\* and the chat that sent is gone: the chat of the earlier visit, which
\* is the only one left, has the one message it was loaded with
C26_Witness ==
    /\ ~pending.active
    /\ sends = 1
    /\ MapKeys(chats) = <<"chat_0">>
    /\ Len(heap[MapGet(chats, "chat_0")].messages) = 1
    /\ view # <<>>
    /\ Last(view).kind = "message"
    /\ Last(view).sender = "assistant"

\* the step completed a saveChatsToStorage: both items were written
SaveCompleted ==
    /\ storage'.chats = JsonItem(JSONEntries(chats', heap'))
    /\ storage'.current.kind = "string"
    /\ storage' # storage

(* C27: after every completed saveChatsToStorage the persisted identifier  *)
(* of the current session is the key of a session of the persisted         *)
(* collection, after any sequence of create, switch, delete and send.      *)
C27_PointerIsPersisted ==
    [][ SaveCompleted =>
           \E j \in 1..Len(Persisted') : Persisted'[j].key = storage'.current.value
      ]_vars

\* a chat of the earlier visit was deleted after a chat was created on this
\* page, and the save that followed has stored the one chat that is left
C27_Witness ==
    /\ Len(Persisted) = 1
    /\ storage.current = StringItem("chat_3")
    /\ Persisted[1].key = "chat_3"
    /\ currentChatId = "chat_3"

\* what initializeApp finds stored
StoredKeys == [i \in 1..Len(Persisted) |-> Persisted[i].key]

(* C28: on initialisation with a non-empty stored collection the current   *)
(* session becomes the last entry of the stored collection, in stored      *)
(* order, whatever the stored identifier of the current session is; the    *)
(* session that was current at the last save is current again only if it   *)
(* is that last entry.                                                     *)
C28_InitSelectsLastStored ==
    [][ (Reload /\ Len(Persisted) > 0) =>
           /\ currentChatId' = Last(StoredKeys)
           /\ (currentChatId' = GetItem(storage.current)
                  <=> GetItem(storage.current) = Last(StoredKeys))
           /\ MapKeys(chats') = StoredKeys
      ]_vars

\* the page was loaded again while the stored pointer named the second of
\* three stored chats, and the third is the current chat
C28_Witness ==
    /\ now = 3
    /\ storage.current = StringItem("chat_1")
    /\ StoredKeys = <<"chat_0", "chat_1", "chat_2">>
    /\ currentChatId = "chat_2"
    /\ ~pending.active
    /\ inputEnabled

-----------------------------------------------------------------------------
(* The claims about the relay. *)

\* the text of the field `message` of the request in hand, '' without one
AskedMessage ==
    LET request == exchange.request
    IN  IF "json" \in DOMAIN request
        THEN (IF "message" \in DOMAIN request.json THEN request.json.message ELSE "")
        ELSE LET fields == SelectSeq(request.form, LAMBDA e : e.name = "message")
             IN  IF fields = <<>> THEN "" ELSE fields[Len(fields)].value

\* the files of the request in hand
AskedFiles ==
    LET request == exchange.request
    IN  IF "json" \in DOMAIN request THEN <<>>
        ELSE LET files == SelectSeq(request.form, LAMBDA e : e.name = "images")
             IN  [i \in 1..Len(files) |-> files[i].value]

\* the request carries a file that is no image
UploadRefused == \E i \in 1..Len(AskedFiles) : ~IsImageFile(AskedFiles[i])

\* the request carries nothing the relay that runs can forward
NothingAsked ==
    IF server = "server.js" THEN AskedMessage = ""
    ELSE AskedMessage = "" /\ AskedFiles = <<>>

\* an answer with a status that is no success and a body {error: text}
IsErrorAnswer(a) ==
    /\ a.status < 200 \/ a.status > 299
    /\ DOMAIN a.body = {"error"}
    /\ a.body.error # ""

\* the provider answered the call with a message
ProviderSucceeded ==
    /\ "settled" \in DOMAIN exchange
    /\ exchange.settled.kind = "fulfilled"
    /\ exchange.settled.data.choices # <<>>

\* the status the answer to a failure of the provider has
MirroredStatus ==
    LET outcome == exchange.settled
    IN  IF /\ outcome.kind = "rejected"
           /\ "response" \in DOMAIN outcome.error
           /\ outcome.error.response.status \in {401, 429, 400}
        THEN outcome.error.response.status
        ELSE 500

C29_NoEmptyContent ==
    exchange.stage # "none" =>
       \A i \in 1..Len(exchange.calls) :
          LET content == exchange.calls[i].data.messages[1].content
          IN  IF content.type = "string"
              THEN content.value # ""
              ELSE Len(content.value) >= 1

====
